---- MODULE Spec2Model ----
(***************************************************************************)
(* Model of the memory allocator of MemoryAllocatorSO (os_malloc, os_free, *)
(* os_calloc, os_realloc over a circular doubly-linked list of block       *)
(* descriptors that live in front of their payloads).                      *)
(*                                                                         *)
(* The descriptors are kept where the program keeps them: in memory.       *)
(* words maps the address of an 8-byte word to the value the allocator     *)
(* stored there, and a descriptor at address b is the four words at b,     *)
(* b + 8, b + 16 and b + 24, so that two descriptors which overlap share   *)
(* words and the list is what the prev/next words say it is.  Payload      *)
(* bytes are kept in mem as a set of runs.  Sizes and addresses are w-bit  *)
(* unsigned integers (Word = 2^WordBits).                                  *)
(***************************************************************************)
EXTENDS Integers, Sequences, FiniteSets, TLC

(***************************************************************************)
(* Bounds of the model.                                                    *)
(***************************************************************************)
WordBits == 21
MaxMaps == 2
MaxOps == 4
MaxFreeOps == 5
MaxShrinkOps == 5
MaxMixOps == 6

(***************************************************************************)
(* Program constants.                                                      *)
(***************************************************************************)
ALIGNMENT == 8
\* 128 * 1024
HEAP_PREALLOC_SIZE == 131072
\* 128 * 1024
MMAP_THRESHOLD == 131072
PageSize == 4096
SizeofBlockMeta == 32
OffSize == 0
OffStatus == 8
OffPrev == 16
OffNext == 24
STATUS_FREE == 0
STATUS_ALLOC == 1
STATUS_MAPPED == 2
NULL == 0
HeadAddr == 64

Word == 2 ^ WordBits
IntRange == 2 ^ (WordBits - 1)
Wrap(x) == x % Word
ToSigned(x) == IF x >= Word \div 2 THEN x - Word ELSE x

ALIGN(size) ==
  LET t == Wrap(size + (ALIGNMENT - 1)) IN t - (t % ALIGNMENT)

META_BLOCK_SIZE == ALIGN(SizeofBlockMeta)

(***************************************************************************)
(* The environment: where the program break starts, how far the operating  *)
(* system lets it grow, and where anonymous mappings are placed.           *)
(***************************************************************************)
HeapBase == Word \div 4
BrkLimit == Word \div 2
MapBaseOf(slot) == (Word \div 2) + (slot - 1) * (Word \div 8) + PageSize
MapLimit == (Word \div 8) - PageSize
PageRound(n) == ((n + PageSize - 1) \div PageSize) * PageSize
SBRK_FAILED == -1
MAP_FAILED == -1
CRASH == -1
GarbagePtr == HeapBase + 1

Min2(a, b) == IF a < b THEN a ELSE b
Max2(a, b) == IF a > b THEN a ELSE b

(***************************************************************************)
(* Memory contents.  A run [lo, hi, tag, off] says that the byte at        *)
(* address a in lo..hi-1 is byte number off + (a - lo) of the data the     *)
(* client wrote with tag `tag`; ZeroTag marks zero bytes.  Bytes in no run *)
(* hold indeterminate values (never written, or overwritten by a           *)
(* descriptor).                                                            *)
(***************************************************************************)
ZeroTag == 0

ClipRun(r, lo, hi) ==
  LET l == Max2(r.lo, lo)
      h == Min2(r.hi, hi)
  IN [lo |-> l, hi |-> h, tag |-> r.tag,
      off |-> IF r.tag = ZeroTag THEN 0 ELSE r.off + (l - r.lo)]

Slice(m, lo, hi) ==
  {ClipRun(r, lo, hi) : r \in {x \in m : x.lo < hi /\ x.hi > lo}}

Clear(m, lo, hi) ==
  IF hi <= lo THEN m
  ELSE {r \in m : r.hi <= lo \/ r.lo >= hi}
       \cup {ClipRun(r, r.lo, lo) : r \in {x \in m : x.lo < lo /\ x.hi > lo}}
       \cup {ClipRun(r, hi, r.hi) : r \in {x \in m : x.lo < hi /\ x.hi > hi}}

Shift(rs, d) == {[r EXCEPT !.lo = @ + d, !.hi = @ + d] : r \in rs}

Joins(q, r) ==
  /\ q.hi = r.lo
  /\ q.tag = r.tag
  /\ (q.tag = ZeroTag \/ r.off = q.off + (q.hi - q.lo))

RECURSIVE RunEnd(_, _, _)
RunEnd(m, r, fuel) ==
  IF fuel = 0 \/ ~(\E q \in m : Joins(r, q)) THEN r.hi
  ELSE RunEnd(m, CHOOSE q \in m : Joins(r, q), fuel - 1)

Norm(m) ==
  {[lo |-> r.lo, hi |-> RunEnd(m, r, Cardinality(m)), tag |-> r.tag, off |-> r.off] :
     r \in {x \in m : ~(\E q \in m : Joins(q, x))}}

Fill(m, lo, hi, tag) ==
  IF hi <= lo THEN m
  ELSE Norm(Clear(m, lo, hi) \cup {[lo |-> lo, hi |-> hi, tag |-> tag, off |-> 0]})

Move(m, dst, src, n) ==
  IF n <= 0 THEN m
  ELSE Norm(Clear(m, dst, dst + n) \cup Shift(Slice(m, src, src + n), dst - src))

\* The n bytes at address p, as a value that does not depend on p.
Bytes(m, p, n) == Shift(Slice(m, p, p + n), 0 - p)

(***************************************************************************)
(* Words.  A word the allocator has not stored since the memory was        *)
(* obtained, zeroed or filled by the client reads as 0.  struct block_meta *)
(* is {size_t size; int status; prev; next}: the status is the low part   *)
(* of the word at offset 8 (values below IntRange), and storing it leaves  *)
(* the rest of that word alone.                                            *)
(***************************************************************************)
Load(h, a) == IF a \in DOMAIN h THEN h[a] ELSE 0

SizeOf(h, block) == Load(h, Wrap(block + OffSize))
StatusOf(h, block) == Load(h, Wrap(block + OffStatus)) % IntRange
PrevOf(h, block) == Load(h, Wrap(block + OffPrev))
NextOf(h, block) == Load(h, Wrap(block + OffNext))

\* The words of h outside [lo, hi).
DropWords(h, lo, hi) ==
  IF hi <= lo THEN h
  ELSE [a \in {x \in DOMAIN h : x + ALIGNMENT <= lo \/ x >= hi} |-> h[a]]

\* memmove of n bytes from src to dst, as it acts on the words.
MoveWords(h, dst, src, n) ==
  LET from == {a \in DOMAIN h : a >= src /\ a + ALIGNMENT <= src + n}
      kept == DropWords(h, dst, dst + n)
  IN IF n <= 0 \/ dst = src THEN h
     ELSE [a \in (DOMAIN kept) \cup {x + (dst - src) : x \in from} |->
             IF a - (dst - src) \in from THEN h[a - (dst - src)] ELSE kept[a]]

(***************************************************************************)
(* The allocator's state as one record s, so that each function of the     *)
(* source is an operator from the state before to the state after:         *)
(*   words  the descriptors' words  brk    the program break               *)
(*   maps   the live mappings       mem    payload bytes                   *)
(*   fault  the call does not return (the process was killed, or a         *)
(*          traversal never ends)                                          *)
(* and, for the call in progress, nsys/sbrks (the break extensions asked   *)
(* for), unmapped (the regions released), merged (the calls of             *)
(* coalesce_blocks), copied (the lengths passed to memmove), path and      *)
(* place (the branch the operation and the placement took).                *)
(***************************************************************************)
\* The number of bytes, at most n, that can be accessed from address a on.
\* The heap is accessible up to the end of the page that holds the break,
\* a mapping up to the end of its last page.
AccLen(s, a, n) ==
  IF a >= HeapBase /\ a < PageRound(s.brk) THEN Min2(n, PageRound(s.brk) - a)
  ELSE IF \E m \in s.maps : a >= m.base /\ a < m.base + PageRound(m.len)
       THEN LET m == CHOOSE x \in s.maps : a >= x.base /\ a < x.base + PageRound(x.len)
            IN Min2(n, m.base + PageRound(m.len) - a)
       ELSE 0

\* The word at address a can be read and written.
WordAcc(s, a) ==
  \/ a >= HeadAddr /\ a < HeadAddr + META_BLOCK_SIZE
  \/ AccLen(s, a, ALIGNMENT) = ALIGNMENT

\* The descriptor at addr can be read and written.
HdrAcc(s, addr) ==
  addr = HeadAddr \/ AccLen(s, addr, META_BLOCK_SIZE) = META_BLOCK_SIZE

\* Store value at address a: the word stops being payload.  A store outside
\* accessible memory kills the process.
Store(s, a, value) ==
  [s EXCEPT !.words = (a :> value) @@ @,
            !.mem = Clear(@, a, a + ALIGNMENT),
            !.fault = @ \/ ~WordAcc(s, a)]

SetSize(s, block, value) == Store(s, Wrap(block + OffSize), Wrap(value))
SetPrev(s, block, value) == Store(s, Wrap(block + OffPrev), value)
SetNext(s, block, value) == Store(s, Wrap(block + OffNext), value)
SetStatus(s, block, value) ==
  LET a == Wrap(block + OffStatus)
      old == Load(s.words, a)
  IN Store(s, a, old - (old % IntRange) + value)

\* n bytes of tag are written from address lo on.
FillBytes(s, lo, n, tag) ==
  [s EXCEPT !.mem = Fill(@, lo, lo + n, tag),
            !.words = DropWords(@, lo, lo + n)]

Fault(s) == [s EXCEPT !.fault = TRUE]
SetPath(s, p) == [s EXCEPT !.path = p]
SetPlace(s, p) == [s EXCEPT !.place = p]

(***************************************************************************)
(* Operating system primitives: sbrk, mmap, munmap.  env is the outcome    *)
(* the environment chooses for the call: EnvOk (every system call succeeds *)
(* if the resources allow it, an out-of-bounds read returns indeterminate  *)
(* bytes), EnvFail1 / EnvFail2 (the first / second system call of the      *)
(* operation fails), EnvTrap (as EnvOk, but an out-of-bounds read kills    *)
(* the process).  A mapping is placed in the lowest free slot.  Pages the  *)
(* break leaves are given back; pages it reaches again are zero.  A        *)
(* request that would bring the break to address 0 asks the kernel where   *)
(* the break is: sbrk answers with the break and moves nothing.            *)
(***************************************************************************)
EnvOk == 0
EnvFail1 == 1
EnvFail2 == 2
EnvTrap == 3

Sbrk(s, delta, env) ==
  LET k == s.nsys + 1
      sd == ToSigned(Wrap(delta))
      ok == env # k /\ s.brk + sd <= BrkLimit /\ s.brk + sd >= HeapBase
      s1 == [s EXCEPT !.nsys = k, !.sbrks = Append(@, Wrap(delta))]
      top == PageRound(s.brk + sd)
  IN IF env # k /\ s.brk + sd = 0 THEN [st |-> s1, ret |-> s.brk]
     ELSE IF ok
     THEN [st |-> [s1 EXCEPT !.brk = s.brk + sd,
                             !.words = DropWords(@, top, MapBaseOf(1)),
                             !.mem = Clear(@, top, MapBaseOf(1))],
           ret |-> s.brk]
     ELSE [st |-> s1, ret |-> SBRK_FAILED]

SlotFree(s, slot) == \A m \in s.maps : m.base # MapBaseOf(slot)
FreeSlots(s) == {slot \in 1..MaxMaps : SlotFree(s, slot)}

Mmap(s, len, env) ==
  LET k == s.nsys + 1
      ok == env # k /\ len > 0 /\ len <= MapLimit /\ FreeSlots(s) # {}
      slot == CHOOSE x \in FreeSlots(s) : \A y \in FreeSlots(s) : x <= y
      b == MapBaseOf(slot)
      s1 == [s EXCEPT !.nsys = k]
  IN IF ok
     THEN [st |-> [s1 EXCEPT !.maps = @ \cup {[base |-> b, len |-> len]},
                             !.mem = Fill(@, b, b + PageRound(len), ZeroTag),
                             !.words = DropWords(@, b, b + PageRound(len))],
           ret |-> b]
     ELSE [st |-> s1, ret |-> MAP_FAILED]

Munmap(s, addr, len) ==
  IF len = 0 \/ addr % PageSize # 0 THEN [st |-> s, ret |-> -1]
  ELSE [st |-> [s EXCEPT
                  !.maps = {m \in @ : ~(m.base >= addr /\
                              m.base + PageRound(m.len) <= addr + PageRound(len))},
                  !.mem = Clear(@, addr, addr + PageRound(len)),
                  !.words = DropWords(@, addr, addr + PageRound(len)),
                  !.unmapped = Append(@, [base |-> addr, len |-> len])],
        ret |-> 0]

(***************************************************************************)
(* The list.  An operation is written as the source runs it: each          *)
(* statement takes the state the one before it left, and what a later      *)
(* statement reads it reads from that state.                               *)
(***************************************************************************)
head_init(s) ==
  LET s1 == SetSize(s, HeadAddr, 0)
      s2 == SetPrev(s1, HeadAddr, HeadAddr)
      s3 == SetNext(s2, HeadAddr, HeadAddr)
  IN [s3 EXCEPT !.head_init_done = TRUE]

list_add_last(s, block) ==
  LET last == PrevOf(s.words, HeadAddr)
      s1 == SetNext(s, last, block)
      s2 == SetPrev(s1, block, last)
      s3 == SetNext(s2, block, HeadAddr)
  IN SetPrev(s3, HeadAddr, block)

\* block->prev->next = block->next
UnlinkNext(s, block) == SetNext(s, PrevOf(s.words, block), NextOf(s.words, block))
\* block->next->prev = block->prev
UnlinkPrev(s, block) == SetPrev(s, NextOf(s.words, block), PrevOf(s.words, block))

list_remove_block(s, block) == UnlinkPrev(UnlinkNext(s, block), block)

\* The longest a traversal of a list that ends can be: every block it passes
\* has a next word that was stored.
Fuel(s) == Cardinality(DOMAIN s.words) + 1

\* The blocks of the list in list order, as far as the next words lead.
RECURSIVE Walk(_, _, _)
Walk(h, it, fuel) ==
  IF it = HeadAddr \/ fuel = 0 \/ Wrap(it + OffNext) \notin DOMAIN h THEN <<>>
  ELSE <<it>> \o Walk(h, NextOf(h, it), fuel - 1)

Nodes(h) == Walk(h, NextOf(h, HeadAddr), Cardinality(DOMAIN h))

\* The rest of map_block_in_mem once mmap has answered r.
MappedBlock(r, size) ==
  IF r.ret = MAP_FAILED THEN [st |-> r.st, ret |-> NULL]
  ELSE [st |-> list_add_last(SetStatus(SetSize(r.st, r.ret, size), r.ret, STATUS_MAPPED),
                             r.ret),
        ret |-> r.ret]

map_block_in_mem(s, size, env) ==
  MappedBlock(Mmap(s, Wrap(META_BLOCK_SIZE + size), env), size)

\* The rest of prealloc_heap_attempt once sbrk has answered r.
PreallocatedBlock(r) ==
  IF r.ret = SBRK_FAILED THEN [st |-> r.st, ret |-> 0]
  ELSE LET s1 == SetSize(r.st, r.ret, HEAP_PREALLOC_SIZE - META_BLOCK_SIZE)
           s2 == SetStatus(s1, r.ret, STATUS_FREE)
           s3 == list_add_last(s2, r.ret)
       IN [st |-> [s3 EXCEPT !.heap_prealloc_done = TRUE], ret |-> 1]

\* prealloc_heap_attempt without the test of heap_prealloc_done.
prealloc_every_time(s, env) == PreallocatedBlock(Sbrk(s, HEAP_PREALLOC_SIZE, env))

prealloc_heap_attempt(s, env) ==
  IF s.heap_prealloc_done THEN [st |-> s, ret |-> 1]
  ELSE PreallocatedBlock(Sbrk(s, HEAP_PREALLOC_SIZE, env))

\* A traversal that reads a descriptor outside accessible memory, or that
\* never comes back to the sentinel, does not return: CRASH.
RECURSIVE FindBestLoop(_, _, _, _, _)
FindBestLoop(s, iterator, best_fit, size, fuel) ==
  IF iterator = HeadAddr THEN best_fit
  ELSE IF fuel = 0 \/ ~HdrAcc(s, iterator) THEN CRASH
  ELSE LET better == /\ StatusOf(s.words, iterator) = STATUS_FREE
                     /\ SizeOf(s.words, iterator) >= ALIGN(size)
                     /\ (best_fit = NULL \/
                           SizeOf(s.words, iterator) < SizeOf(s.words, best_fit))
       IN FindBestLoop(s, NextOf(s.words, iterator),
                       IF better THEN iterator ELSE best_fit, size, fuel - 1)

\* find_best_block that stops at the first Free block that is large enough.
RECURSIVE FirstFitLoop(_, _, _, _)
FirstFitLoop(s, iterator, size, fuel) ==
  IF iterator = HeadAddr THEN NULL
  ELSE IF fuel = 0 \/ ~HdrAcc(s, iterator) THEN CRASH
  ELSE IF StatusOf(s.words, iterator) = STATUS_FREE /\ SizeOf(s.words, iterator) >= ALIGN(size)
  THEN iterator
  ELSE FirstFitLoop(s, NextOf(s.words, iterator), size, fuel - 1)

find_first_block(s, size) ==
  FirstFitLoop(s, NextOf(s.words, HeadAddr), size, Fuel(s))

find_best_block(s, size) ==
  FindBestLoop(s, NextOf(s.words, HeadAddr), NULL, size, Fuel(s))

\* new_block->next = block->next
CopyNext(s, new_block, block) == SetNext(s, new_block, NextOf(s.words, block))
\* block->next->prev = new_block
SetPrevOfNext(s, block, new_block) == SetPrev(s, NextOf(s.words, block), new_block)

split_block_attempt(s, block, size) ==
  LET minimum_occupied_size == Wrap(ALIGN(size) + META_BLOCK_SIZE + 1)
      new_block == Wrap(block + META_BLOCK_SIZE + ALIGN(size))
      s1 == SetSize(s, new_block, SizeOf(s.words, block) - ALIGN(size) - META_BLOCK_SIZE)
      s2 == SetStatus(s1, new_block, STATUS_FREE)
      s3 == SetSize(s2, block, ALIGN(size))
      s4 == CopyNext(s3, new_block, block)
      s5 == SetPrev(s4, new_block, block)
      s6 == SetPrevOfNext(s5, block, new_block)
      s7 == SetNext(s6, block, new_block)
  IN IF SizeOf(s.words, block) = ALIGN(size) THEN s
     ELSE IF minimum_occupied_size >= SizeOf(s.words, block) THEN s
     ELSE s7

RECURSIVE LastOnHeapLoop(_, _, _)
LastOnHeapLoop(s, iterator, fuel) ==
  IF fuel = 0 \/ ~HdrAcc(s, iterator) THEN CRASH
  ELSE IF StatusOf(s.words, iterator) = STATUS_MAPPED /\ iterator # HeadAddr
  THEN LastOnHeapLoop(s, PrevOf(s.words, iterator), fuel - 1)
  ELSE IF iterator = HeadAddr THEN NULL ELSE iterator

get_last_on_heap(s) ==
  LastOnHeapLoop(s, PrevOf(s.words, HeadAddr), Fuel(s))

\* The rest of expand_last_block once sbrk has answered r.
ExpandedBlock(r, last_block, additional_needed_size) ==
  IF r.ret = SBRK_FAILED THEN [st |-> r.st, ret |-> NULL]
  ELSE [st |-> SetSize(r.st, last_block,
                       SizeOf(r.st.words, last_block) + additional_needed_size),
        ret |-> last_block]

\* expand_last_block once get_last_on_heap has found last_block.
ExpandBlock(s, last_block, size, env) ==
  IF last_block = CRASH THEN [st |-> Fault(s), ret |-> NULL]
  ELSE IF last_block = NULL THEN [st |-> s, ret |-> NULL]
  ELSE ExpandedBlock(Sbrk(s, Wrap(size - SizeOf(s.words, last_block)), env),
                     last_block, Wrap(size - SizeOf(s.words, last_block)))

expand_last_block(s, size, env) == ExpandBlock(s, get_last_on_heap(s), size, env)

\* block1->size += META_BLOCK_SIZE + block2->size
AddSize(s, block1, block2) ==
  SetSize(s, block1, SizeOf(s.words, block1) + META_BLOCK_SIZE + SizeOf(s.words, block2))

Merged(s) == [s EXCEPT !.merged = @ + 1]

coalesce_blocks(s, block1, block2) ==
  list_remove_block(Merged(AddSize(s, block1, block2)), block2)

RECURSIVE CoalesceLoop(_, _, _, _)
CoalesceLoop(s, iterator, to_coalesce1, fuel) ==
  IF iterator = HeadAddr \/ s.fault THEN s
  ELSE IF fuel = 0 \/ ~HdrAcc(s, iterator) THEN Fault(s)
  ELSE LET nxt == NextOf(s.words, iterator)
       IN IF StatusOf(s.words, iterator) = STATUS_ALLOC
          THEN CoalesceLoop(s, nxt, NULL, fuel - 1)
          ELSE IF StatusOf(s.words, iterator) = STATUS_MAPPED
          THEN CoalesceLoop(s, nxt, to_coalesce1, fuel - 1)
          ELSE IF to_coalesce1 = NULL
          THEN CoalesceLoop(s, nxt, iterator, fuel - 1)
          ELSE CoalesceLoop(coalesce_blocks(s, to_coalesce1, iterator),
                            nxt, to_coalesce1, fuel - 1)

coalesce_attempt(s) ==
  CoalesceLoop(s, NextOf(s.words, HeadAddr), NULL, Fuel(s))

\* The coalesce pass of the earlier version of the source: a Mapped block
\* resets to_coalesce1 as an Allocated block does.
RECURSIVE CoalesceBarrierLoop(_, _, _, _)
CoalesceBarrierLoop(s, iterator, to_coalesce1, fuel) ==
  IF iterator = HeadAddr \/ s.fault THEN s
  ELSE IF fuel = 0 \/ ~HdrAcc(s, iterator) THEN Fault(s)
  ELSE LET nxt == NextOf(s.words, iterator)
       IN IF StatusOf(s.words, iterator) \in {STATUS_ALLOC, STATUS_MAPPED}
          THEN CoalesceBarrierLoop(s, nxt, NULL, fuel - 1)
          ELSE IF to_coalesce1 = NULL
          THEN CoalesceBarrierLoop(s, nxt, iterator, fuel - 1)
          ELSE CoalesceBarrierLoop(coalesce_blocks(s, to_coalesce1, iterator),
                                   nxt, to_coalesce1, fuel - 1)

coalesce_attempt_barrier(s) ==
  CoalesceBarrierLoop(s, NextOf(s.words, HeadAddr), NULL, Fuel(s))

\* The block whose payload starts at ptr, NULL when there is none, CRASH when
\* the traversal does not return.
RECURSIVE SearchLoop(_, _, _, _)
SearchLoop(s, iterator, ptr, fuel) ==
  IF iterator = HeadAddr THEN NULL
  ELSE IF Wrap(iterator + META_BLOCK_SIZE) = ptr THEN iterator
  ELSE IF fuel = 0 \/ ~HdrAcc(s, iterator) THEN CRASH
  ELSE SearchLoop(s, NextOf(s.words, iterator), ptr, fuel - 1)

search_block_in_list(s, ptr) ==
  SearchLoop(s, NextOf(s.words, HeadAddr), ptr, Fuel(s))

\* get_free_heap_block, last step: a new block at the program break, once
\* sbrk has answered r.
NewBlock(r, size) ==
  IF r.ret = SBRK_FAILED THEN [st |-> SetPlace(r.st, "new_block"), ret |-> NULL]
  ELSE [st |-> SetPlace(list_add_last(SetSize(r.st, r.ret, ALIGN(size)), r.ret),
                        "new_block"),
        ret |-> r.ret]

ExpandedLast(e) == [st |-> SetPlace(e.st, "expand_last"), ret |-> e.ret]

\* get_free_heap_block when no block fits: the last block on the heap is
\* expanded if it is Free, else a new block is requested.
PlaceAtEnd(s, last_on_heap, size, env) ==
  IF last_on_heap = CRASH THEN [st |-> Fault(s), ret |-> NULL]
  ELSE IF last_on_heap # NULL /\ StatusOf(s.words, last_on_heap) = STATUS_FREE
  THEN ExpandedLast(expand_last_block(s, ALIGN(size), env))
  ELSE NewBlock(Sbrk(s, META_BLOCK_SIZE + ALIGN(size), env), size)

\* get_free_heap_block after find_best_block has answered best_block.
PlaceBest(s, best_block, size, env) ==
  IF best_block = CRASH THEN [st |-> Fault(s), ret |-> NULL]
  ELSE IF best_block # NULL
  THEN [st |-> SetPlace(split_block_attempt(s, best_block, ALIGN(size)), "best_fit"),
        ret |-> best_block]
  ELSE PlaceAtEnd(s, get_last_on_heap(s), size, env)

\* get_free_heap_block after coalesce_attempt has left state s.
PlaceCoalesced(s, size, env) ==
  IF s.fault THEN [st |-> s, ret |-> NULL]
  ELSE PlaceBest(s, find_best_block(s, ALIGN(size)), size, env)

\* get_free_heap_block after prealloc_heap_attempt has answered p.
PlacePreallocated(p, size, env) ==
  IF p.ret = 0 THEN [st |-> SetPlace(p.st, "prealloc_failed"), ret |-> NULL]
  ELSE PlaceCoalesced(coalesce_attempt(p.st), size, env)

get_free_heap_block(s, size, env) ==
  PlacePreallocated(prealloc_heap_attempt(s, env), size, env)

(***************************************************************************)
(* The four operations.                                                    *)
(***************************************************************************)
Payload(block) == Wrap(block + META_BLOCK_SIZE)

\* if (!head_init_done) head_init();
Initialised(s) == IF ~s.head_init_done THEN head_init(s) ELSE s

\* os_malloc after get_free_heap_block has answered g.
HeapAllocated(g) ==
  IF g.ret = NULL THEN [st |-> SetPath(g.st, "heap_failed"), ret |-> NULL]
  ELSE [st |-> SetPath(SetStatus(g.st, g.ret, STATUS_ALLOC), "heap"),
        ret |-> Payload(g.ret)]

\* os_malloc after map_block_in_mem has answered m.
MapAllocated(m) ==
  IF m.ret = NULL THEN [st |-> SetPath(m.st, "map_failed"), ret |-> NULL]
  ELSE [st |-> SetPath(m.st, "map"), ret |-> Payload(m.ret)]

\* os_malloc once the size is known to be positive and the list is there.
AllocateAligned(s, aligned_size, env) ==
  IF Wrap(aligned_size + META_BLOCK_SIZE) < MMAP_THRESHOLD
  THEN HeapAllocated(get_free_heap_block(s, aligned_size, env))
  ELSE MapAllocated(map_block_in_mem(s, aligned_size, env))

os_malloc(s0, size, env) ==
  IF size <= 0 THEN [st |-> SetPath(s0, "invalid"), ret |-> NULL]
  ELSE AllocateAligned(Initialised(s0), ALIGN(size), env)

(***************************************************************************)
(* Remove a mapped block from the list and unmap its memory zone; DIE ends *)
(* the process when munmap fails.                                          *)
(***************************************************************************)
\* munmap(block, block->size + META_BLOCK_SIZE)
UnmapBlock(s, block) ==
  Munmap(s, block, Wrap(SizeOf(s.words, block) + META_BLOCK_SIZE))

\* DIE(ret == -1, ...)
DieIfFailed(u) == IF u.ret = -1 THEN Fault(u.st) ELSE u.st

delete_mapped_block(s, block) ==
  IF StatusOf(s.words, block) # STATUS_MAPPED THEN s
  ELSE DieIfFailed(UnmapBlock(list_remove_block(s, block), block))

\* os_free after search_block_in_list has answered block.
FreeBlock(s, block) ==
  IF block = CRASH THEN Fault(SetPath(s, "crash"))
  ELSE IF block = NULL THEN SetPath(s, "unknown")
  ELSE IF ~HdrAcc(s, block) THEN Fault(SetPath(s, "crash"))
  ELSE IF StatusOf(s.words, block) = STATUS_FREE THEN SetPath(s, "already_free")
  ELSE IF StatusOf(s.words, block) = STATUS_MAPPED
  THEN SetPath(delete_mapped_block(s, block), "unmap")
  ELSE IF StatusOf(s.words, block) = STATUS_ALLOC
  THEN SetPath(SetStatus(s, block, STATUS_FREE), "heap_free")
  ELSE SetPath(s, "other")

os_free(s, ptr) ==
  IF ptr = NULL THEN SetPath(s, "null")
  ELSE FreeBlock(s, search_block_in_list(s, ptr))

\* memset of n zero bytes at the payload of block; it kills the process when
\* it runs outside accessible memory.
ZeroPayload(s, block, n) ==
  IF AccLen(s, Payload(block), n) < n THEN Fault(s)
  ELSE FillBytes(s, Payload(block), n, ZeroTag)

\* os_calloc after get_free_heap_block has answered g.
HeapZeroed(g, aligned_size) ==
  IF g.ret = NULL THEN [st |-> SetPath(g.st, "heap_failed"), ret |-> NULL]
  ELSE [st |-> SetPath(ZeroPayload(SetStatus(g.st, g.ret, STATUS_ALLOC), g.ret,
                                   aligned_size), "heap"),
        ret |-> Payload(g.ret)]

\* os_calloc after map_block_in_mem has answered m.
MapZeroed(m, aligned_size) ==
  IF m.ret = NULL THEN [st |-> SetPath(m.st, "map_failed"), ret |-> NULL]
  ELSE [st |-> SetPath(ZeroPayload(m.st, m.ret, aligned_size), "map"),
        ret |-> Payload(m.ret)]

\* os_calloc once both operands are known to be non-zero and the list is there.
CallocAligned(s, nmemb, size, aligned_size, env) ==
  IF aligned_size < size \/ aligned_size < nmemb
  THEN [st |-> SetPath(s, "overflow"), ret |-> NULL]
  ELSE IF ToSigned(Wrap(aligned_size + META_BLOCK_SIZE)) < PageSize
  THEN HeapZeroed(get_free_heap_block(s, aligned_size, env), aligned_size)
  ELSE MapZeroed(map_block_in_mem(s, aligned_size, env), aligned_size)

os_calloc(s0, nmemb, size, env) ==
  IF nmemb = 0 \/ size = 0 THEN [st |-> SetPath(s0, "invalid"), ret |-> NULL]
  ELSE CallocAligned(Initialised(s0), nmemb, size, ALIGN(Wrap(size * nmemb)), env)

(***************************************************************************)
(* memmove of size bytes between two payloads.  Reading past the end of    *)
(* the memory the process owns is undefined: the process is killed, or the *)
(* bytes read are indeterminate.  Writing past it kills the process.       *)
(***************************************************************************)
MoveBytes(s, dest_payload, src_payload, size, readable, writable, env) ==
  IF writable < size THEN Fault(s)
  ELSE IF readable < size
  THEN IF env = EnvTrap THEN Fault(s)
       ELSE [s EXCEPT !.mem = Clear(Move(@, dest_payload, src_payload, readable),
                                    dest_payload + readable, dest_payload + size),
                      !.words = DropWords(MoveWords(@, dest_payload, src_payload, readable),
                                          dest_payload + readable, dest_payload + size),
                      !.overread = TRUE]
  ELSE [s EXCEPT !.mem = Move(@, dest_payload, src_payload, readable),
                 !.words = MoveWords(@, dest_payload, src_payload, readable)]

\* The call in progress asks memmove for size bytes.
Copying(s, size) == [s EXCEPT !.copied = Append(@, size)]

copy_block(s, dest, src, size, env) ==
  MoveBytes(Copying(s, size), Payload(dest), Payload(src), size,
            AccLen(s, Payload(src), size), AccLen(s, Payload(dest), size), env)

\* copy_block(new, block, new->size), as shrink_realloc calls it
CopyNewSize(s, dest, src, env) == copy_block(s, dest, src, SizeOf(s.words, dest), env)
\* copy_block(new, block, block->size), as extend_realloc calls it
CopyOldSize(s, dest, src, env) == copy_block(s, dest, src, SizeOf(s.words, src), env)

\* shrink_realloc of a mapped block, after map_block_in_mem has answered m.
ShrunkToMap(m, block, env) ==
  IF m.ret = NULL THEN [st |-> SetPath(m.st, "map_failed"), ret |-> NULL]
  ELSE [st |-> SetPath(delete_mapped_block(CopyNewSize(m.st, m.ret, block, env), block),
                       "mapped_to_mapped"),
        ret |-> Payload(m.ret)]

\* shrink_realloc of a mapped block, after get_free_heap_block has answered g.
ShrunkToHeap(g, block, env) ==
  IF g.ret = NULL THEN [st |-> SetPath(g.st, "heap_failed"), ret |-> NULL]
  ELSE [st |-> SetPath(delete_mapped_block(
                         CopyNewSize(SetStatus(g.st, g.ret, STATUS_ALLOC), g.ret, block, env),
                         block),
                       "mapped_to_heap"),
        ret |-> Payload(g.ret)]

shrink_realloc(s, block, size, env) ==
  IF StatusOf(s.words, block) = STATUS_MAPPED
  THEN IF size >= MMAP_THRESHOLD
       THEN ShrunkToMap(map_block_in_mem(s, size, env), block, env)
       ELSE ShrunkToHeap(get_free_heap_block(s, size, env), block, env)
  ELSE [st |-> SetPath(split_block_attempt(s, block, size), "heap_shrink"),
        ret |-> Payload(block)]

\* block_coalesce_to_size without its loop: nothing is merged.
block_coalesce_nothing(s, block, size) == s

RECURSIVE CoalesceToSizeLoop(_, _, _, _, _)
\* The loop after coalesce_blocks(block, iterator) has left state s.
CoalescedToSize(s, block, iterator, size, fuel) ==
  IF SizeOf(s.words, block) >= size THEN s
  ELSE CoalesceToSizeLoop(s, block, NextOf(s.words, iterator), size, fuel - 1)

CoalesceToSizeLoop(s, block, iterator, size, fuel) ==
  IF iterator = HeadAddr \/ s.fault THEN s
  ELSE IF fuel = 0 \/ ~HdrAcc(s, iterator) THEN Fault(s)
  ELSE IF StatusOf(s.words, iterator) = STATUS_FREE
  THEN CoalescedToSize(coalesce_blocks(s, block, iterator), block, iterator, size, fuel)
  ELSE IF StatusOf(s.words, iterator) = STATUS_MAPPED
  THEN CoalesceToSizeLoop(s, block, NextOf(s.words, iterator), size, fuel - 1)
  ELSE s

block_coalesce_to_size(s, block, size) ==
  CoalesceToSizeLoop(s, block, NextOf(s.words, block), size, Fuel(s))

\* extend_realloc of a mapped block, after map_block_in_mem has answered m.
ExtendedMapped(m, block, env) ==
  IF m.ret = NULL THEN [st |-> SetPath(m.st, "map_failed"), ret |-> NULL]
  ELSE [st |-> SetPath(delete_mapped_block(CopyOldSize(m.st, m.ret, block, env), block),
                       "mapped_to_mapped"),
        ret |-> Payload(m.ret)]

\* extend_realloc of a heap block to the mapping threshold or more, after
\* map_block_in_mem has answered m.
ExtendedToMap(m, block, env) ==
  IF m.ret = NULL THEN [st |-> SetPath(m.st, "map_failed"), ret |-> NULL]
  ELSE [st |-> SetPath(SetStatus(CopyOldSize(m.st, m.ret, block, env), block, STATUS_FREE),
                       "heap_to_mapped"),
        ret |-> Payload(m.ret)]

\* extend_realloc of the last block on the heap, after expand_last_block has
\* answered e.
ExtendedInPlace(e) ==
  IF e.ret = NULL THEN [st |-> SetPath(e.st, "expand_failed"), ret |-> NULL]
  ELSE [st |-> SetPath(e.st, "expand_in_place"), ret |-> Payload(e.ret)]

\* extend_realloc when forward coalescing did not reach the size, after
\* get_free_heap_block has answered g.
ExtendedToHeap(g, block, original_block_size, env) ==
  IF g.ret = NULL THEN [st |-> SetPath(g.st, "heap_failed"), ret |-> NULL]
  ELSE [st |-> SetPath(SetStatus(copy_block(SetStatus(g.st, g.ret, STATUS_ALLOC),
                                            g.ret, block, original_block_size, env),
                                 block, STATUS_FREE),
                       "heap_to_heap"),
        ret |-> Payload(g.ret)]

\* extend_realloc after block_coalesce_to_size has left state s.
ExtendCoalesced(s, block, size, original_block_size, env) ==
  IF s.fault THEN [st |-> s, ret |-> NULL]
  ELSE IF SizeOf(s.words, block) >= size
  THEN [st |-> SetPath(split_block_attempt(s, block, size), "forward_coalesce"),
        ret |-> Payload(block)]
  ELSE ExtendedToHeap(get_free_heap_block(s, size, env), block, original_block_size, env)

\* extend_realloc of a heap block below the mapping threshold, after
\* get_last_on_heap has answered last_on_heap.
ExtendOnHeap(s, last_on_heap, block, size, env) ==
  IF last_on_heap = CRASH THEN [st |-> Fault(s), ret |-> NULL]
  ELSE IF block = last_on_heap
  THEN ExtendedInPlace(expand_last_block(s, size, env))
  ELSE ExtendCoalesced(block_coalesce_to_size(s, block, size), block, size,
                       SizeOf(s.words, block), env)

extend_realloc(s, block, size, env) ==
  IF StatusOf(s.words, block) = STATUS_MAPPED
  THEN ExtendedMapped(map_block_in_mem(s, size, env), block, env)
  ELSE IF size >= MMAP_THRESHOLD
  THEN ExtendedToMap(map_block_in_mem(s, size, env), block, env)
  ELSE ExtendOnHeap(s, get_last_on_heap(s), block, size, env)

\* os_realloc after search_block_in_list has answered req_block.
ReallocBlock(s, req_block, aligned_size, env) ==
  IF req_block = CRASH THEN [st |-> Fault(SetPath(s, "crash")), ret |-> NULL]
  ELSE IF req_block = NULL THEN [st |-> SetPath(s, "invalid"), ret |-> NULL]
  ELSE IF ~HdrAcc(s, req_block) THEN [st |-> Fault(SetPath(s, "crash")), ret |-> NULL]
  ELSE IF StatusOf(s.words, req_block) = STATUS_FREE
  THEN [st |-> SetPath(s, "invalid"), ret |-> NULL]
  ELSE IF aligned_size = SizeOf(s.words, req_block)
  THEN [st |-> SetPath(s, "same_size"), ret |-> Payload(req_block)]
  ELSE IF aligned_size > SizeOf(s.words, req_block)
  THEN extend_realloc(s, req_block, aligned_size, env)
  ELSE IF aligned_size < SizeOf(s.words, req_block)
  THEN shrink_realloc(s, req_block, aligned_size, env)
  ELSE [st |-> s, ret |-> NULL]

\* os_realloc without the test for a null ptr.
realloc_without_null_test(s, ptr, size, env) ==
  IF size = 0 THEN [st |-> os_free(s, ptr), ret |-> NULL]
  ELSE ReallocBlock(s, search_block_in_list(s, ptr), ALIGN(size), env)

os_realloc(s, ptr, size, env) ==
  IF ptr = NULL THEN os_malloc(s, size, env)
  ELSE IF size = 0 THEN [st |-> os_free(s, ptr), ret |-> NULL]
  ELSE ReallocBlock(s, search_block_in_list(s, ptr), ALIGN(size), env)

(***************************************************************************)
(* The state machine.  The client calls the four operations with sizes     *)
(* and pointers of its choice and writes into payloads it owns.  live is   *)
(* the set of pointers the client was given and has not passed back to     *)
(* os_free or os_realloc; last describes the latest call; nops counts the  *)
(* steps taken, at most MaxOps.                                            *)
(***************************************************************************)
VARIABLES words, brk, maps, mem, head_init_done, heap_prealloc_done, fault, live, last,
          nops

vars == <<words, brk, maps, mem, head_init_done, heap_prealloc_done, fault, live, last,
          nops>>

\* Request sizes: the invalid 0, small sizes, the sizes on either side of
\* the page-size and MMAP_THRESHOLD dispatch conditions, and the sizes at the
\* top of the size_t range, where ALIGN(size) is 0 and where
\* ALIGN(size) + META_BLOCK_SIZE is 0.
MallocSizes ==
  {0, 1, MMAP_THRESHOLD - META_BLOCK_SIZE - 8, MMAP_THRESHOLD - META_BLOCK_SIZE,
   Word - META_BLOCK_SIZE, Word - 24, Word - 8, Word - 1}
ReallocSizes ==
  {0, 1, 24, MMAP_THRESHOLD - META_BLOCK_SIZE + 8, MMAP_THRESHOLD, MMAP_THRESHOLD + 8,
   Word - 24, Word - 1}
\* Operands of os_calloc: a zero operand, a heap request, a request at the
\* page-size dispatch, and two pairs whose product does not fit in a word:
\* one whose wrapped product is below an operand, one whose wrapped product
\* is above both.
SqrtWord == 2 ^ ((WordBits + 1) \div 2)
CallocArgs ==
  {<<0, 8>>, <<1, 0>>, <<3, 8>>, <<1, PageSize - META_BLOCK_SIZE>>,
   <<Word \div 2 - 1, 4>>, <<SqrtWord + 1, SqrtWord + 1>>}

\* The outcomes that make a difference to a call that, when nothing fails,
\* ends in state s: a failure of each system call it makes, and a trap if it
\* reads out of bounds.
EnvsFor(s) ==
  {EnvOk} \cup {e \in {EnvFail1, EnvFail2} : e <= s.nsys}
          \cup {e \in {EnvTrap} : s.overread}

Cur ==
  [words |-> words, brk |-> brk, maps |-> maps, mem |-> mem,
   head_init_done |-> head_init_done, heap_prealloc_done |-> heap_prealloc_done,
   fault |-> fault, nsys |-> 0, sbrks |-> <<>>, unmapped |-> <<>>,
   merged |-> 0, path |-> "", place |-> "", overread |-> FALSE,
   copied |-> <<>>]

\* Pointers the client may pass: null, a pointer that was never returned, the
\* payload of any block of the list, and the pointer of the latest call.
PtrInputs ==
  {NULL, GarbagePtr, last.ptr} \cup {Payload(Nodes(words)[i]) : i \in 1..Len(Nodes(words))}

\* The arguments of os_realloc: every size with a pointer the client owns,
\* and with a pointer it does not own the sizes that tell the branches of
\* os_realloc apart (zero, small, mapped).
ReallocArgsOver(sizes) ==
  {<<ptr, size>> : ptr \in live, size \in sizes}
    \cup {<<ptr, size>> : ptr \in PtrInputs \ live, size \in {0, 24, MMAP_THRESHOLD}}

ReallocArgs == ReallocArgsOver(ReallocSizes)

Init ==
  /\ words = <<>>
  /\ brk = HeapBase
  /\ maps = {}
  /\ mem = {}
  /\ head_init_done = FALSE
  /\ heap_prealloc_done = FALSE
  /\ fault = FALSE
  /\ live = {}
  /\ nops = 0
  /\ last = [op |-> "init", ptr |-> NULL, nmemb |-> 0, size |-> 0, ret |-> NULL,
             path |-> "", place |-> "", sbrks |-> <<>>, unmapped |-> <<>>,
             merged |-> 0, overread |-> FALSE, copied |-> <<>>, twice |-> FALSE,
             noop |-> FALSE]

\* The call op(ptr, nmemb, size) took the allocator to state s and returned
\* ret.  A crashed process keeps no state worth describing.  last.twice tells
\* that the call is the second of two os_free(ptr) in a row, the first of
\* which released a block.  A call that changed nothing is explored as a leaf
\* (last.noop): whatever can follow it can follow the state it left unchanged.
Commit(s, op, ptr, nmemb, size, ret, newlive) ==
  /\ nops' = nops + 1
  /\ fault' = s.fault
  /\ IF s.fault
     THEN UNCHANGED <<words, brk, maps, mem, head_init_done, heap_prealloc_done, live>>
     ELSE /\ words' = s.words
          /\ brk' = s.brk
          /\ maps' = s.maps
          /\ mem' = s.mem
          /\ head_init_done' = s.head_init_done
          /\ heap_prealloc_done' = s.heap_prealloc_done
          /\ live' = newlive
  /\ last' = [op |-> op, ptr |-> ptr, nmemb |-> nmemb, size |-> size,
              ret |-> IF s.fault THEN CRASH ELSE ret,
              path |-> IF s.fault THEN "crash" ELSE s.path,
              place |-> s.place, sbrks |-> s.sbrks, unmapped |-> s.unmapped,
              merged |-> s.merged, overread |-> s.overread, copied |-> s.copied,
              twice |-> /\ op = "free" /\ last.op = "free" /\ last.ptr = ptr
                        /\ last.path \in {"heap_free", "unmap"},
              noop |-> /\ ~s.fault
                       /\ <<s.words, s.brk, s.maps, s.mem,
                             s.head_init_done, s.heap_prealloc_done, newlive>>
                          = <<words, brk, maps, mem, head_init_done, heap_prealloc_done,
                              live>>]

\* The process is alive and the client makes one more call.
Running == ~fault /\ ~last.noop

\* A call that hands out a block: the client owns the pointer it returned.
CommitNew(r, op, nmemb, size) ==
  Commit(r.st, op, NULL, nmemb, size, r.ret,
         IF r.ret = NULL THEN live ELSE live \cup {r.ret})

\* os_realloc: with size 0 the client gives ptr up; when it fails the client
\* keeps ptr; else the client owns the pointer returned instead of ptr.
CommitMoved(r, ptr, size) ==
  Commit(r.st, "realloc", ptr, 0, size, r.ret,
         IF size = 0 THEN live \ {ptr}
         ELSE IF r.ret = NULL THEN live
         ELSE (live \ {ptr}) \cup {r.ret})

Malloc(size, env) ==
  /\ Running
  /\ CommitNew(os_malloc(Cur, size, env), "malloc", 0, size)

Calloc(nmemb, size, env) ==
  /\ Running
  /\ CommitNew(os_calloc(Cur, nmemb, size, env), "calloc", nmemb, size)

Free(ptr) ==
  /\ Running
  /\ Commit(os_free(Cur, ptr), "free", ptr, 0, 0, NULL, live \ {ptr})

Realloc(ptr, size, env) ==
  /\ Running
  /\ CommitMoved(os_realloc(Cur, ptr, size, env), ptr, size)

\* The client fills the payload it was given at ptr with its own data; the
\* process is killed if part of that payload is not accessible memory.
Write(ptr) ==
  /\ Running
  /\ ptr \in live
  /\ LET block == Wrap(ptr - META_BLOCK_SIZE)
         n == SizeOf(words, block)
         bad == AccLen(Cur, ptr, n) < n
         s == FillBytes(Cur, ptr, n, ptr)
     IN /\ \E i \in 1..Len(Nodes(words)) : Nodes(words)[i] = block
        /\ fault' = bad
        /\ mem' = IF bad THEN mem ELSE s.mem
        /\ words' = IF bad THEN words ELSE s.words
        /\ bad \/ mem' # mem
        /\ last' = [op |-> "write", ptr |-> ptr, nmemb |-> 0, size |-> 0,
                    ret |-> IF bad THEN CRASH ELSE NULL,
                    path |-> IF bad THEN "crash" ELSE "", place |-> "",
                    sbrks |-> <<>>, unmapped |-> <<>>, merged |-> 0,
                    overread |-> FALSE, copied |-> <<>>, twice |-> FALSE,
                    noop |-> FALSE]
  /\ nops' = nops + 1
  /\ UNCHANGED <<brk, maps, head_init_done, heap_prealloc_done, live>>

Next ==
  /\ nops < MaxOps
  /\ \/ Running /\ \E size \in MallocSizes :
          \E env \in EnvsFor(os_malloc(Cur, size, EnvOk).st) : Malloc(size, env)
     \/ Running /\ \E a \in CallocArgs :
          \E env \in EnvsFor(os_calloc(Cur, a[1], a[2], EnvOk).st) :
            Calloc(a[1], a[2], env)
     \/ \E ptr \in PtrInputs : Free(ptr)
     \/ Running /\ \E a \in ReallocArgs :
          \E env \in EnvsFor(os_realloc(Cur, a[1], a[2], EnvOk).st) :
            Realloc(a[1], a[2], env)
     \/ \E ptr \in live : Write(ptr)

Spec == Init /\ [][Next]_vars

\* A client whose request sizes stay in the lower half of the size_t range,
\* where neither ALIGN(size) nor ALIGN(size) + META_BLOCK_SIZE wraps.
InRange(sizes) == {size \in sizes : size < Word \div 2}
CallocInRange == {a \in CallocArgs : a[1] * a[2] < Word \div 2}

NextInRange ==
  /\ nops < MaxOps
  /\ \/ Running /\ \E size \in InRange(MallocSizes) :
          \E env \in EnvsFor(os_malloc(Cur, size, EnvOk).st) : Malloc(size, env)
     \/ Running /\ \E a \in CallocInRange :
          \E env \in EnvsFor(os_calloc(Cur, a[1], a[2], EnvOk).st) :
            Calloc(a[1], a[2], env)
     \/ \E ptr \in PtrInputs : Free(ptr)
     \/ Running /\ \E a \in ReallocArgsOver(InRange(ReallocSizes)) :
          \E env \in EnvsFor(os_realloc(Cur, a[1], a[2], EnvOk).st) :
            Realloc(a[1], a[2], env)
     \/ \E ptr \in live : Write(ptr)

SpecInRange == Init /\ [][NextInRange]_vars

\* A client that only allocates and frees, with a mapped size and two sizes
\* at the top of the size_t range, for one call more than MaxOps allows.
FreeSizes == {MMAP_THRESHOLD - META_BLOCK_SIZE, Word - 24, Word - 16}

NextFree ==
  /\ nops < MaxFreeOps
  /\ \/ Running /\ \E size \in FreeSizes : Malloc(size, EnvOk)
     \/ \E ptr \in PtrInputs : Free(ptr)

SpecFree == Init /\ [][NextFree]_vars

\* A client that moves blocks between the mapped and the heap regime: it
\* asks for the sizes on either side of MMAP_THRESHOLD, resizes the blocks it
\* owns to the sizes around the pre-allocated block's, and frees.
ShrinkMallocSizes ==
  {MMAP_THRESHOLD - META_BLOCK_SIZE - 8, MMAP_THRESHOLD - META_BLOCK_SIZE}
ShrinkReallocSizes ==
  {MMAP_THRESHOLD - META_BLOCK_SIZE - 8, MMAP_THRESHOLD - META_BLOCK_SIZE + 8}

NextShrink ==
  /\ nops < MaxShrinkOps
  /\ \/ Running /\ \E size \in ShrinkMallocSizes : Malloc(size, EnvOk)
     \/ \E ptr \in live : Free(ptr)
     \/ Running /\ \E ptr \in live : \E size \in ShrinkReallocSizes :
          \E env \in EnvsFor(os_realloc(Cur, ptr, size, EnvOk).st) :
            Realloc(ptr, size, env)

SpecShrink == Init /\ [][NextShrink]_vars

\* A client that fills the heap, maps a block, gets one more heap block at
\* the break and then frees and resizes: the lists in which a Mapped block
\* stands between two heap blocks that are neighbours in memory.  It takes
\* two calls more than MaxOps allows and every system call succeeds.
MixMallocSizes == {1, HEAP_PREALLOC_SIZE - META_BLOCK_SIZE - 47, MMAP_THRESHOLD - META_BLOCK_SIZE}
MixReallocSizes == {24, HEAP_PREALLOC_SIZE - META_BLOCK_SIZE - 32}

NextMix ==
  /\ nops < MaxMixOps
  /\ \/ Running /\ \E size \in MixMallocSizes : Malloc(size, EnvOk)
     \/ \E ptr \in live : Free(ptr)
     \/ Running /\ \E ptr \in live : \E size \in MixReallocSizes :
          Realloc(ptr, size, EnvOk)

SpecMix == Init /\ [][NextMix]_vars

TypeOK ==
  /\ \A a \in DOMAIN words : a % ALIGNMENT = 0 /\ words[a] \in 0..(Word - 1)
  /\ \A a \in DOMAIN words : WordAcc(Cur, a)
  /\ brk \in HeapBase..BrkLimit
  /\ \A m \in maps : \E slot \in 1..MaxMaps : m.base = MapBaseOf(slot)

(***************************************************************************)
(* Views of the descriptor words h used by the properties below.           *)
(***************************************************************************)
\* The blocks of the list, as a set.
BlocksOf(h) == {Nodes(h)[i] : i \in 1..Len(Nodes(h))}

\* Block b is owned by the client: its status is Allocated or Mapped.
LiveIn(h, b) == StatusOf(h, b) \in {STATUS_ALLOC, STATUS_MAPPED}

\* The heap-regime blocks (Free or Allocated) in list order.
HeapSeqOf(h) ==
  SelectSeq(Nodes(h), LAMBDA b : StatusOf(h, b) \in {STATUS_FREE, STATUS_ALLOC})

\* The list as the client of the properties sees it: the blocks in list
\* order, each with its size and status.
ListOf(h) ==
  [i \in 1..Len(Nodes(h)) |->
     <<Nodes(h)[i], SizeOf(h, Nodes(h)[i]), StatusOf(h, Nodes(h)[i])>>]

\* The address ranges [lo1, hi1) and [lo2, hi2) share no byte.
Disjoint(lo1, hi1, lo2, hi2) ==
  lo1 >= hi1 \/ lo2 >= hi2 \/ hi1 <= lo2 \/ hi2 <= lo1

\* C1: in every reachable state the payload [addr+META, addr+META+size) of a
\* live block of the list (Allocated or Mapped) shares no byte with the
\* descriptor or the payload of any other block of the list; in particular the
\* payloads of two distinct live blocks are disjoint.
C1_NonOverlap ==
  \A a \in BlocksOf(words) :
    LiveIn(words, a) =>
      \A b \in BlocksOf(words) \ {a} :
        /\ Disjoint(Payload(a), Payload(a) + SizeOf(words, a), b, b + META_BLOCK_SIZE)
        /\ Disjoint(Payload(a), Payload(a) + SizeOf(words, a),
                    Payload(b), Payload(b) + SizeOf(words, b))

\* C2: when os_realloc(p, m) with m >= 1 is called on a live pointer p whose
\* block has payload size n and succeeds with q, the first
\* min(n, round_up(m, 8)) payload bytes at q after the call equal the bytes at
\* p before it, whichever path the call took.  round_up is taken as the code
\* computes it (ALIGN, which wraps): the shortest prefix the claim can mean.
C2_ReallocPreservesPrefix ==
  [][(/\ last'.op = "realloc"
      /\ last'.ptr \in live
      /\ last'.size >= 1
      /\ last'.ret \notin {NULL, CRASH})
     => LET p == last'.ptr
            n == SizeOf(words, Wrap(p - META_BLOCK_SIZE))
            k == Min2(n, ALIGN(last'.size))
        IN Bytes(mem', last'.ret, k) = Bytes(mem, p, k)]_vars

\* C3: in every reachable state the heap-regime blocks (Free or Allocated),
\* taken in list order and ignoring Mapped blocks, are in increasing address
\* order and physically contiguous: each one's next heap block starts exactly
\* at addr(b) + META + b.size.
C3_HeapContiguous ==
  LET hs == HeapSeqOf(words)
  IN \A i \in 1..(Len(hs) - 1) :
       /\ hs[i] < hs[i + 1]
       /\ hs[i + 1] = hs[i] + META_BLOCK_SIZE + SizeOf(words, hs[i])

\* C4: after any operation returns, no two heap blocks that follow each other
\* in the list (Mapped blocks ignored) are both Free.
C4_NoAdjacentFree ==
  LET hs == HeapSeqOf(words)
  IN \A i \in 1..(Len(hs) - 1) :
       ~(/\ StatusOf(words, hs[i]) = STATUS_FREE
         /\ StatusOf(words, hs[i + 1]) = STATUS_FREE)

\* C5: a call whose pointer argument is not p leaves every live pointer p
\* valid: the block with payload start p is still in the list with status
\* Allocated or Mapped, its size has not decreased and the bytes of its payload
\* are unchanged.
C5_PointerStable ==
  [][\A p \in live :
       LET b == Wrap(p - META_BLOCK_SIZE)
       IN (/\ b \in BlocksOf(words)
           /\ LiveIn(words, b)
           /\ last'.op \in {"malloc", "calloc", "free", "realloc"}
           /\ last'.ptr # p
           /\ ~fault')
          => /\ b \in BlocksOf(words')
             /\ LiveIn(words', b)
             /\ SizeOf(words', b) >= SizeOf(words, b)
             /\ Bytes(mem', p, SizeOf(words, b)) = Bytes(mem, p, SizeOf(words, b))]_vars

\* C6: in every reachable state the size of every block of the list is a
\* multiple of 8.
C6_SizesAligned ==
  \A b \in BlocksOf(words) : SizeOf(words, b) % ALIGNMENT = 0

\* The paths of the operations that end with a block obtained from mmap.
MapPaths == {"map", "mapped_to_mapped", "heap_to_mapped"}

\* C7: every non-null pointer returned by os_malloc, os_calloc or os_realloc
\* is divisible by 8 and is addr(block) + META for a block of the list whose
\* status is Mapped if the block was obtained from mmap and Allocated if it
\* lies on the heap.
C7_ReturnedPointer ==
  (last.op \in {"malloc", "calloc", "realloc"} /\ last.ret \notin {NULL, CRASH})
    => /\ last.ret % ALIGNMENT = 0
       /\ \E b \in BlocksOf(words) :
            /\ last.ret = Payload(b)
            /\ LiveIn(words, b)
            /\ (last.path \in MapPaths => StatusOf(words, b) = STATUS_MAPPED)
            /\ (last.path \notin MapPaths \cup {"same_size"}
                  => StatusOf(words, b) = STATUS_ALLOC)

\* C8: the second of two calls os_free(p) in a row, the first of which
\* released the live block at p, changes nothing (list, statuses, sizes,
\* program break, mappings), unmaps nothing and returns.
C8_DoubleFree ==
  last.twice => (last.noop /\ last.unmapped = <<>> /\ ~fault)

\* C9: os_malloc(0), os_free(NULL), os_calloc with nmemb = 0 or size = 0, and
\* os_realloc(p, s) with s > 0 where p is non-null and is the payload start
\* of no block of the list or of a Free block, return NULL (os_free: return)
\* and leave the list, the program break and the mappings as they were.
C9_InvalidArguments ==
  [][(\/ last'.op = "malloc" /\ last'.size = 0
      \/ last'.op = "free" /\ last'.ptr = NULL
      \/ last'.op = "calloc" /\ (last'.nmemb = 0 \/ last'.size = 0)
      \/ /\ last'.op = "realloc"
         /\ last'.size > 0
         /\ last'.ptr # NULL
         /\ \A b \in BlocksOf(words) :
              Payload(b) = last'.ptr => StatusOf(words, b) = STATUS_FREE)
     => /\ last'.ret = NULL
        /\ ListOf(words') = ListOf(words)
        /\ brk' = brk
        /\ maps' = maps]_vars

\* The paths of the operations that end because sbrk or mmap failed.
FailPaths == {"heap_failed", "map_failed", "expand_failed"}

\* C10: when sbrk or mmap fails inside os_malloc, os_calloc or os_realloc,
\* the call returns NULL and the list (its blocks, their order, sizes and
\* statuses), the program break and the mappings are as before the call.
C10_FailureLeavesState ==
  [][(last'.op \in {"malloc", "calloc", "realloc"} /\ last'.path \in FailPaths)
     => /\ last'.ret = NULL
        /\ ListOf(words') = ListOf(words)
        /\ brk' = brk
        /\ maps' = maps]_vars

(***************************************************************************)
(* C11: across any sequence of operations the program break never goes     *)
(* down, and every delta an operation passes to sbrk, read as the intptr_t *)
(* sbrk takes, is strictly positive.                                       *)
(***************************************************************************)
C11_BreakMonotone ==
  [][/\ brk' >= brk
     /\ \A i \in DOMAIN last'.sbrks : ToSigned(last'.sbrks[i]) > 0]_vars

\* The regions [addr, addr + META + size) of the Mapped blocks of the list.
MappedRegionsOf(h) ==
  {[base |-> b, len |-> META_BLOCK_SIZE + SizeOf(h, b)] :
     b \in {x \in BlocksOf(h) : StatusOf(h, x) = STATUS_MAPPED}}

\* C12: after every operation the live mappings are exactly the regions
\* [addr, addr + META + size) of the blocks of the list with status Mapped,
\* and an os_realloc that failed has unmapped nothing.
C12_MappingsMatchList ==
  /\ maps = MappedRegionsOf(words)
  /\ (last.op = "realloc" /\ last.size # 0 /\ last.ret = NULL) => last.unmapped = <<>>

\* round_up(n, 8) as a number, without the wrap of ALIGN.
round_up(n) == ((n + ALIGNMENT - 1) \div ALIGNMENT) * ALIGNMENT

\* C13: os_malloc(n) with n >= 1 and a = round_up(n, 8) is served from the
\* heap exactly when a + META < MMAP_THRESHOLD; otherwise, when it succeeds, it
\* maps exactly META + a bytes, appends one block of size a and status Mapped
\* at the tail of the list, and leaves the program break and every other block
\* as they were.
C13_MallocDispatch ==
  [][(last'.op = "malloc" /\ last'.size >= 1 /\ last'.ret # CRASH)
     => LET a == round_up(last'.size)
            block == Wrap(last'.ret - META_BLOCK_SIZE)
        IN /\ (last'.path \in {"heap", "heap_failed"})
                <=> (a + META_BLOCK_SIZE < MMAP_THRESHOLD)
           /\ (last'.path = "map")
                => /\ maps' = maps \cup {[base |-> block, len |-> META_BLOCK_SIZE + a]}
                   /\ block \notin {m.base : m \in maps}
                   /\ ListOf(words') = Append(ListOf(words), <<block, a, STATUS_MAPPED>>)
                   /\ brk' = brk
                   /\ heap_prealloc_done' = heap_prealloc_done]_vars

\* C14: when os_calloc(n, size) succeeds, the round_up(n * size, 8) bytes at
\* the pointer it returns are all zero, whatever the client had written there
\* before, and the payload bytes of every block the client already owns are
\* what they were before the call.
C14_CallocZeroed ==
  [][(last'.op = "calloc" /\ last'.ret \notin {NULL, CRASH})
     => LET k == round_up(last'.nmemb * last'.size)
        IN /\ Bytes(mem', last'.ret, k)
                = {[lo |-> 0, hi |-> k, tag |-> ZeroTag, off |-> 0]}
           /\ \A p \in live :
                LET n == SizeOf(words, Wrap(p - META_BLOCK_SIZE))
                IN Bytes(mem', p, n) = Bytes(mem, p, n)]_vars

\* C15: os_calloc(n, size) with n, size >= 1 whose product n * size, rounded
\* up to 8, does not fit in a word returns NULL and creates no block, no
\* mapping and no break extension; a non-null result is the payload of a
\* block of at least n * size bytes.
C15_CallocOverflow ==
  [][(last'.op = "calloc" /\ last'.nmemb >= 1 /\ last'.size >= 1 /\ last'.ret # CRASH)
     => /\ (round_up(last'.nmemb * last'.size) >= Word)
             => /\ last'.ret = NULL
                /\ ListOf(words') = ListOf(words)
                /\ maps' = maps
                /\ brk' = brk
        /\ (last'.ret # NULL)
             => SizeOf(words', Wrap(last'.ret - META_BLOCK_SIZE))
                  >= last'.nmemb * last'.size]_vars

\* From a fresh allocator the first call has allocated the first heap block,
\* and os_realloc(ptr, size) is called next to grow that block to a
\* heap-regime size, and returns a block.
GrowsFirstHeapBlock ==
  /\ nops = 1
  /\ last.op \in {"malloc", "calloc"}
  /\ last.path = "heap"
  /\ last'.op = "realloc"
  /\ last'.ret \notin {NULL, CRASH}
  /\ HeapSeqOf(words) # <<>>
  /\ last'.ptr = Payload(HeapSeqOf(words)[1])
  /\ StatusOf(words, HeapSeqOf(words)[1]) = STATUS_ALLOC
  /\ round_up(last'.size) > SizeOf(words, HeapSeqOf(words)[1])
  /\ round_up(last'.size) < MMAP_THRESHOLD

\* C16 as stated: from a fresh allocator, growing the first heap block from
\* aligned size a1 to a heap-regime aligned size a2 > a1 keeps the pointer and
\* advances the program break by a2 - a1.
C16_GrowAdvancesBreak ==
  [][GrowsFirstHeapBlock
     => /\ last'.ret = last'.ptr
        /\ brk' = brk + round_up(last'.size) - SizeOf(words, HeapSeqOf(words)[1])]_vars

\* C16, amended: from a fresh allocator, growing the first heap block to a
\* heap-regime aligned size a2 keeps the pointer and leaves the program break where it is when the
\* heap block after it is Free and the two together hold a2 bytes (the case
\* after the pre-allocation); it keeps the pointer and advances the break by
\* a2 minus the size of the block when the block is the last one on the heap.
C16_GrowFirstHeapBlock ==
  [][GrowsFirstHeapBlock
     => LET hs == HeapSeqOf(words)
            a2 == round_up(last'.size)
        IN /\ (/\ Len(hs) >= 2
               /\ StatusOf(words, hs[2]) = STATUS_FREE
               /\ SizeOf(words, hs[1]) + META_BLOCK_SIZE + SizeOf(words, hs[2]) >= a2)
                => (last'.ret = last'.ptr /\ brk' = brk)
           /\ (Len(hs) = 1)
                => (last'.ret = last'.ptr /\ brk' = brk + a2 - SizeOf(words, hs[1]))]_vars

C16_Witness ==
  /\ nops = 2
  /\ last.op = "realloc"
  /\ last.path = "forward_coalesce"
  /\ last.ret = last.ptr
  /\ HeapSeqOf(words) # <<>>
  /\ last.ret = Payload(HeapSeqOf(words)[1])
  /\ SizeOf(words, HeapSeqOf(words)[1]) = round_up(last.size)

\* The size of the block that merging the heap blocks hs[i..j] gives.
RECURSIVE MergedSize(_, _, _, _)
MergedSize(h, hs, i, j) ==
  IF i >= j THEN SizeOf(h, hs[i])
  ELSE SizeOf(h, hs[i]) + META_BLOCK_SIZE + MergedSize(h, hs, i + 1, j)

\* Some run of adjacent Free heap blocks of the list, once merged, holds a
\* bytes.
FreeRunHolds(h, a) ==
  LET hs == HeapSeqOf(h)
  IN \E i \in 1..Len(hs) : \E j \in i..Len(hs) :
       /\ \A k \in i..j : StatusOf(h, hs[k]) = STATUS_FREE
       /\ MergedSize(h, hs, i, j) >= a

\* C17: once the heap is pre-allocated, an os_malloc or os_calloc request of
\* aligned size a that is served from the heap does not extend the program
\* break when some run of adjacent Free heap blocks, merged, has size >= a.
C17_ReuseWithoutExtension ==
  [][(/\ last'.op \in {"malloc", "calloc"}
      /\ last'.path = "heap"
      /\ heap_prealloc_done
      /\ FreeRunHolds(words, IF last'.op = "malloc" THEN round_up(last'.size)
                             ELSE round_up(last'.nmemb * last'.size)))
     => (brk' = brk /\ last'.sbrks = <<>>)]_vars

\* The call just made ended as r says: it returned r.ret and left the list,
\* the program break and the mappings of r.st, or it did not return.
SameOutcome(r) ==
  IF r.st.fault THEN fault' /\ last'.ret = CRASH
  ELSE /\ ~fault'
       /\ last'.ret = r.ret
       /\ words' = r.st.words
       /\ brk' = r.st.brk
       /\ maps' = r.st.maps
       /\ head_init_done' = r.st.head_init_done
       /\ heap_prealloc_done' = r.st.heap_prealloc_done

\* C18: in every state and for every size s, os_realloc(NULL, s) returns what
\* os_malloc(s) returns in that state and leaves the same list, program break
\* and mappings, the sentinel's lazy initialisation included.
C18_ReallocNullIsMalloc ==
  [][(last'.op = "realloc" /\ last'.ptr = NULL)
     => \E env \in {EnvOk, EnvFail1, EnvFail2, EnvTrap} :
          SameOutcome(os_malloc(Cur, last'.size, env))]_vars

C18_Witness ==
  /\ nops = 1
  /\ last.op = "realloc"
  /\ last.ptr = NULL
  /\ last.size = 24
  /\ last.path = "heap"
  /\ last.ret = Payload(HeapBase)
  /\ head_init_done

\* C19: os_realloc(p, s) on a heap block with status Allocated, with
\* a = round_up(s, 8) >= MMAP_THRESHOLD and a > block.size, when it does not
\* return NULL, returns the payload of a new Mapped block of size a, distinct
\* from p; the old block stays in the list at its address with its size and
\* status Free; the call merges no blocks and leaves the program break alone.
C19_HeapToMapped ==
  [][(/\ last'.op = "realloc"
      /\ Wrap(last'.ptr - META_BLOCK_SIZE) \in BlocksOf(words)
      /\ StatusOf(words, Wrap(last'.ptr - META_BLOCK_SIZE)) = STATUS_ALLOC
      /\ round_up(last'.size) >= MMAP_THRESHOLD
      /\ round_up(last'.size) > SizeOf(words, Wrap(last'.ptr - META_BLOCK_SIZE))
      /\ last'.ret # NULL)
     => LET block == Wrap(last'.ptr - META_BLOCK_SIZE)
            new_map_block == Wrap(last'.ret - META_BLOCK_SIZE)
        IN /\ last'.ret # CRASH
           /\ last'.ret # last'.ptr
           /\ new_map_block \in BlocksOf(words') \ BlocksOf(words)
           /\ StatusOf(words', new_map_block) = STATUS_MAPPED
           /\ SizeOf(words', new_map_block) = round_up(last'.size)
           /\ block \in BlocksOf(words')
           /\ SizeOf(words', block) = SizeOf(words, block)
           /\ StatusOf(words', block) = STATUS_FREE
           /\ last'.merged = 0
           /\ brk' = brk]_vars

\* C20: when os_realloc shrinks a Mapped block to a = round_up(s, 8) below
\* MMAP_THRESHOLD and does not return NULL, it returns the payload of an
\* Allocated heap block of at least a bytes, having copied exactly a bytes
\* from the old payload, none of them read past the memory of the old block,
\* and having unlinked the old block and unmapped exactly its region.
C20_MappedToHeapCopy ==
  [][(/\ last'.op = "realloc"
      /\ last'.size >= 1
      /\ Wrap(last'.ptr - META_BLOCK_SIZE) \in BlocksOf(words)
      /\ StatusOf(words, Wrap(last'.ptr - META_BLOCK_SIZE)) = STATUS_MAPPED
      /\ round_up(last'.size) < MMAP_THRESHOLD
      /\ round_up(last'.size) < SizeOf(words, Wrap(last'.ptr - META_BLOCK_SIZE))
      /\ last'.ret # NULL)
     => LET block == Wrap(last'.ptr - META_BLOCK_SIZE)
            heap_block == Wrap(last'.ret - META_BLOCK_SIZE)
        IN /\ last'.ret # CRASH
           /\ last'.copied = <<round_up(last'.size)>>
           /\ ~last'.overread
           /\ heap_block \in BlocksOf(words')
           /\ StatusOf(words', heap_block) = STATUS_ALLOC
           /\ SizeOf(words', heap_block) >= round_up(last'.size)
           /\ block \notin BlocksOf(words')
           /\ last'.unmapped
                = <<[base |-> block, len |-> META_BLOCK_SIZE + SizeOf(words, block)]>>
           /\ maps' = maps \ {[base |-> block,
                               len |-> META_BLOCK_SIZE + SizeOf(words, block)]}]_vars

\* Aligned sizes a heap request can carry to the placement engine: the
\* smallest, sizes just below, at and above the sizes of the blocks the
\* operations leave, and the largest below MMAP_THRESHOLD.
AlignedSizes ==
  {8, 16, 24, 32, HEAP_PREALLOC_SIZE - META_BLOCK_SIZE - 40,
   HEAP_PREALLOC_SIZE - META_BLOCK_SIZE, MMAP_THRESHOLD - META_BLOCK_SIZE + 8}

\* The position of block b in the list.
IndexOf(h, b) == CHOOSE i \in 1..Len(Nodes(h)) : Nodes(h)[i] = b

\* Block b of the list is Free and holds a bytes.
Fits(h, b, a) == StatusOf(h, b) = STATUS_FREE /\ SizeOf(h, b) >= a

\* C21: in every list state, for every aligned size a, find_best_block, when
\* it returns, returns a Free block of the list with size >= a whose size is
\* the smallest among such blocks and which is the first of that size in list
\* order; it returns NULL exactly when no Free block has size >= a; it never
\* returns the sentinel, an Allocated block or a Mapped block.
C21_BestFit ==
  \A a \in AlignedSizes :
    LET best == find_best_block(Cur, a)
    IN best # CRASH =>
         /\ (best = NULL) <=> ~(\E b \in BlocksOf(words) : Fits(words, b, a))
         /\ (best # NULL) =>
              /\ best # HeadAddr
              /\ best \in BlocksOf(words)
              /\ Fits(words, best, a)
              /\ \A b \in BlocksOf(words) :
                   Fits(words, b, a) =>
                     \/ SizeOf(words, b) > SizeOf(words, best)
                     \/ /\ SizeOf(words, b) = SizeOf(words, best)
                        /\ IndexOf(words, b) >= IndexOf(words, best)

\* A request was placed in the best-fitting block while a larger Free block
\* stood before it in the list.
C21_Witness ==
  /\ last.place = "best_fit"
  /\ \E b \in BlocksOf(words) : \E c \in BlocksOf(words) :
       /\ Fits(words, b, 8) /\ Fits(words, c, 8)
       /\ IndexOf(words, b) < IndexOf(words, c)
       /\ SizeOf(words, b) > SizeOf(words, c)
       /\ find_best_block(Cur, 8) = c

\* Sequence seq with x inserted after position i.
InsertAfter(seq, i, x) == SubSeq(seq, 1, i) \o <<x>> \o SubSeq(seq, i + 1, Len(seq))

\* Sequence seq with x in the place of its element at position i.
ReplaceAt(seq, i, x) == SubSeq(seq, 1, i - 1) \o <<x>> \o SubSeq(seq, i + 1, Len(seq))

\* The list of h after block b has been cut at a bytes: b holds a bytes and a
\* Free block with the rest stands right after it.
SplitList(h, b, a) ==
  InsertAfter(ReplaceAt(ListOf(h), IndexOf(h, b), <<b, a, StatusOf(h, b)>>),
              IndexOf(h, b),
              <<b + META_BLOCK_SIZE + a, SizeOf(h, b) - a - META_BLOCK_SIZE, STATUS_FREE>>)

\* State r is state s with block b split at a bytes.
SplitDone(s, r, b, a) ==
  /\ ~r.fault
  /\ SizeOf(r.words, b) = a
  /\ SizeOf(s.words, b) - a - META_BLOCK_SIZE >= ALIGNMENT
  /\ NextOf(r.words, b) = b + META_BLOCK_SIZE + a
  /\ PrevOf(r.words, b + META_BLOCK_SIZE + a) = b
  /\ PrevOf(r.words, NextOf(s.words, b)) = b + META_BLOCK_SIZE + a
  /\ ListOf(r.words) = SplitList(s.words, b, a)
  /\ r.brk = s.brk /\ r.maps = s.maps

\* C22: for every block of the list whose size S is a multiple of 8 and every
\* aligned size a <= S, split_block_attempt splits exactly when
\* S >= a + META_BLOCK_SIZE + 8; then the block holds a bytes and a new Free
\* block of S - a - META_BLOCK_SIZE >= 8 bytes is linked right after it at
\* addr + META_BLOCK_SIZE + a; otherwise the block and the list are unchanged.
C22_SplitThreshold ==
  \A b \in BlocksOf(words) : \A a \in AlignedSizes :
    (SizeOf(words, b) % ALIGNMENT = 0 /\ a <= SizeOf(words, b)) =>
      IF SizeOf(words, b) >= a + META_BLOCK_SIZE + ALIGNMENT
      THEN SplitDone(Cur, split_block_attempt(Cur, b, a), b, a)
      ELSE split_block_attempt(Cur, b, a) = Cur

\* List L (addresses, sizes, statuses in list order) with every maximal run
\* of Free blocks that only Mapped blocks separate replaced by its leftmost
\* block, which gets the sizes of the others and a descriptor for each.
\* anchor is the position in out of the leftmost block of the run, 0 if none.
RECURSIVE MergeRuns(_, _, _, _)
MergeRuns(L, i, out, anchor) ==
  IF i > Len(L) THEN out
  ELSE IF L[i][3] = STATUS_ALLOC THEN MergeRuns(L, i + 1, Append(out, L[i]), 0)
  ELSE IF L[i][3] = STATUS_MAPPED THEN MergeRuns(L, i + 1, Append(out, L[i]), anchor)
  ELSE IF anchor = 0 THEN MergeRuns(L, i + 1, Append(out, L[i]), Len(out) + 1)
  ELSE MergeRuns(L, i + 1,
                 ReplaceAt(out, anchor, <<out[anchor][1],
                                          out[anchor][2] + META_BLOCK_SIZE + L[i][2],
                                          out[anchor][3]>>),
                 anchor)

\* The statuses of the heap blocks of h in list order, Mapped blocks left out.
HeapStatuses(h) == [i \in 1..Len(HeapSeqOf(h)) |-> StatusOf(h, HeapSeqOf(h)[i])]

\* No two Free blocks follow each other once the Mapped blocks are left out.
NoFreePair(h) ==
  \A i \in 1..(Len(HeapStatuses(h)) - 1) :
    ~(HeapStatuses(h)[i] = STATUS_FREE /\ HeapStatuses(h)[i + 1] = STATUS_FREE)

\* State r is state s after the coalesce pass.
CoalescePassDone(s, r) ==
  /\ ~r.fault
  /\ ListOf(r.words) = MergeRuns(ListOf(s.words), 1, <<>>, 0)
  /\ NoFreePair(r.words)
  /\ r.brk = s.brk /\ r.maps = s.maps

\* C23: after coalesce_attempt no two Free blocks are consecutive in list
\* order once the Mapped blocks are ignored: every maximal run of k Free heap
\* blocks that only Mapped blocks separate is replaced by its leftmost block
\* with the sum of the k sizes plus (k-1) * META_BLOCK_SIZE, the other k-1
\* blocks are unlinked, and every Allocated and Mapped block keeps its size,
\* status and place in the list.
C23_CoalescePass ==
  (head_init_done /\ ~fault) => CoalescePassDone(Cur, coalesce_attempt(Cur))

\* The aligned size of the request the call recorded in l carries.
AlignedRequest(l) ==
  IF l.op = "calloc" THEN round_up(l.nmemb * l.size) ELSE round_up(l.size)

\* The state in which get_free_heap_block looks for a place: the sentinel is
\* initialised, the heap pre-allocated and the coalesce pass done.
Prepared(s) == IF s.head_init_done THEN s ELSE head_init(s)
PrePlace(s) == coalesce_attempt(prealloc_heap_attempt(Prepared(s), EnvOk).st)

\* The last block on the heap of state p is Free.
LastIsFree(p) ==
  /\ get_last_on_heap(p) \notin {NULL, CRASH}
  /\ StatusOf(p.words, get_last_on_heap(p)) = STATUS_FREE

\* From state p the call has expanded the last heap block lb to a bytes.
LastExpanded(p, lb, a) ==
  /\ brk' = p.brk + (a - SizeOf(p.words, lb))
  /\ last'.sbrks[Len(last'.sbrks)] = a - SizeOf(p.words, lb)
  /\ SizeOf(words', lb) = a
  /\ StatusOf(words', lb) = STATUS_ALLOC
  /\ last'.ret = Payload(lb)
  /\ Nodes(words') = Nodes(p.words)

\* From state p the call has appended a new block of a bytes at the break.
NewAppended(p, a) ==
  /\ brk' = p.brk + META_BLOCK_SIZE + a
  /\ last'.sbrks[Len(last'.sbrks)] = META_BLOCK_SIZE + a
  /\ Nodes(words') = Append(Nodes(p.words), p.brk)
  /\ SizeOf(words', p.brk) = a
  /\ StatusOf(words', p.brk) = STATUS_ALLOC
  /\ last'.ret = Payload(p.brk)

\* The placement at the end of the heap that the claim describes, from the
\* state p the coalesce pass left.
PlacedAtEnd(p, a) ==
  IF LastIsFree(p)
  THEN last'.place = "expand_last" /\ LastExpanded(p, get_last_on_heap(p), a)
  ELSE last'.place = "new_block" /\ NewAppended(p, a)

\* C24: a heap request of aligned size a that no Free block fits and that
\* succeeds extends the break by exactly a - last.size, sets the size of the
\* last heap block (the tail after skipping trailing Mapped blocks) to a and
\* returns that block, Allocated, without a new block, when that block is
\* Free; otherwise it extends the break by META_BLOCK_SIZE + a and appends a
\* new block of size a at the tail of the list.
C24_PlaceAtEnd ==
  [][(/\ last'.path = "heap"
      /\ last'.ret # NULL
      /\ find_best_block(PrePlace(Cur), AlignedRequest(last')) = NULL)
     => PlacedAtEnd(PrePlace(Cur), AlignedRequest(last'))]_vars

\* The paths on which get_free_heap_block is asked for a block, and those on
\* which it has given one.
HeapAskPaths == {"heap", "heap_failed", "mapped_to_heap", "heap_to_heap"}
HeapPaths == {"heap", "mapped_to_heap", "heap_to_heap"}

\* r is what prealloc_heap_attempt answers in state s when it extends the
\* break: one Free block of HEAP_PREALLOC_SIZE - META_BLOCK_SIZE bytes at the
\* old break, at the tail of the list.
PreallocInstalled(s, r) ==
  /\ r.ret = 1
  /\ r.st.heap_prealloc_done
  /\ r.st.brk = s.brk + HEAP_PREALLOC_SIZE
  /\ ListOf(r.st.words) =
       Append(ListOf(s.words),
              <<s.brk, HEAP_PREALLOC_SIZE - META_BLOCK_SIZE, STATUS_FREE>>)

\* C25: the break extension by HEAP_PREALLOC_SIZE that installs a single Free
\* block of HEAP_PREALLOC_SIZE - META_BLOCK_SIZE bytes succeeds at most once;
\* it happens on the first request that is served from the heap (os_malloc,
\* os_calloc, or an os_realloc that needs a heap block) and never on a request
\* that is served by a mapping; heap_prealloc_done is never reset.
C25_PreallocOnce ==
  [][/\ heap_prealloc_done =>
          /\ heap_prealloc_done'
          /\ prealloc_heap_attempt(Cur, EnvOk) = [st |-> Cur, ret |-> 1]
          /\ (last'.path \in HeapPaths /\ last'.place = "best_fit")
               => (last'.sbrks = <<>> /\ brk' = brk)
     /\ (~heap_prealloc_done /\ heap_prealloc_done') =>
          /\ last'.path \in HeapAskPaths
          /\ last'.sbrks # <<>> /\ last'.sbrks[1] = HEAP_PREALLOC_SIZE
          /\ PreallocInstalled(Prepared(Cur), prealloc_heap_attempt(Prepared(Cur), EnvOk))
     /\ (last'.path \in HeapPaths) => heap_prealloc_done'
     /\ (last'.path \in MapPaths \cup {"map_failed"})
          => (heap_prealloc_done' = heap_prealloc_done)]_vars

\* The heap was pre-allocated by an earlier call, a block is mapped, and the
\* last heap request was placed without any break extension.
C25_Witness ==
  /\ heap_prealloc_done
  /\ last.path \in HeapPaths
  /\ last.sbrks = <<>>
  /\ \E b \in BlocksOf(words) : StatusOf(words, b) = STATUS_MAPPED
  /\ Len(HeapSeqOf(words)) >= 2

\* Sequence seq without its element at position j.
RemoveAt(seq, j) == SubSeq(seq, 1, j - 1) \o SubSeq(seq, j + 1, Len(seq))

\* List L with the block at position i grown by the block at position j and
\* its descriptor, and that block taken out.
Absorbed(L, i, j) ==
  RemoveAt(ReplaceAt(L, i, <<L[i][1], L[i][2] + META_BLOCK_SIZE + L[j][2], L[i][3]>>), j)

\* List L after the block at position i has absorbed its successive Free
\* neighbours from position j on: Mapped neighbours are passed over, and the
\* walk ends at an Allocated neighbour, at the end of the list, or as soon as
\* the block holds a bytes.
RECURSIVE ForwardAbsorb(_, _, _, _)
ForwardAbsorb(L, i, j, a) ==
  IF j > Len(L) THEN L
  ELSE IF L[j][3] = STATUS_FREE
  THEN IF L[i][2] + META_BLOCK_SIZE + L[j][2] >= a THEN Absorbed(L, i, j)
       ELSE ForwardAbsorb(Absorbed(L, i, j), i, j, a)
  ELSE IF L[j][3] = STATUS_MAPPED THEN ForwardAbsorb(L, i, j + 1, a)
  ELSE L

\* List L with the block at position i split at a bytes when it holds a
\* descriptor and 8 bytes more than a.
SplitSeq(L, i, a) ==
  IF L[i][2] >= a + META_BLOCK_SIZE + ALIGNMENT
  THEN InsertAfter(ReplaceAt(L, i, <<L[i][1], a, L[i][3]>>), i,
                   <<L[i][1] + META_BLOCK_SIZE + a, L[i][2] - a - META_BLOCK_SIZE,
                     STATUS_FREE>>)
  ELSE L

\* The call in state s is an os_realloc that grows the Allocated heap block b,
\* which is not the last block on the heap, to the heap-regime size a.
GrowsInner(s, l, b, a) ==
  /\ l.op = "realloc"
  /\ ~s.fault
  /\ b \in BlocksOf(s.words)
  /\ StatusOf(s.words, b) = STATUS_ALLOC
  /\ a > SizeOf(s.words, b)
  /\ a < MMAP_THRESHOLD
  /\ get_last_on_heap(s) # b

\* The call grew block b in place out of the list L that forward coalescing
\* leaves, whenever the block at position i of L (block b) holds a bytes.
GrownInPlace(L, i, a) ==
  L[i][2] >= a =>
    /\ last'.ret = last'.ptr
    /\ brk' = brk
    /\ last'.sbrks = <<>>
    /\ ListOf(words') = SplitSeq(L, i, a)

\* C26: when os_realloc grows an Allocated heap block that is not the last
\* block on the heap to a heap-regime size a, block_coalesce_to_size absorbs
\* the successive list neighbours that are Free (adding META_BLOCK_SIZE and
\* the neighbour's size, unlinking it), passes over Mapped neighbours and
\* stops at the first Allocated neighbour, at the end of the list or as soon
\* as the size is >= a; if the size it reaches is >= a the block is split at
\* a and the same pointer is returned without any break extension.
C26_ForwardCoalesce ==
  [][GrowsInner(Cur, last', last'.ptr - META_BLOCK_SIZE, round_up(last'.size))
     => /\ ListOf(block_coalesce_to_size(Cur, last'.ptr - META_BLOCK_SIZE,
                                         round_up(last'.size)).words)
             = ForwardAbsorb(ListOf(words), IndexOf(words, last'.ptr - META_BLOCK_SIZE),
                             IndexOf(words, last'.ptr - META_BLOCK_SIZE) + 1,
                             round_up(last'.size))
        /\ GrownInPlace(ForwardAbsorb(ListOf(words),
                                      IndexOf(words, last'.ptr - META_BLOCK_SIZE),
                                      IndexOf(words, last'.ptr - META_BLOCK_SIZE) + 1,
                                      round_up(last'.size)),
                        IndexOf(words, last'.ptr - META_BLOCK_SIZE),
                        round_up(last'.size))]_vars

\* The call moved the payload of block b, which forward coalescing left at
\* position i of list L with less than a bytes, to another heap block.
MovedToHeap(L, i, b, a) ==
  (L[i][2] < a /\ last'.ret # NULL /\ ~fault') =>
    /\ last'.ret # last'.ptr
    /\ last'.ret - META_BLOCK_SIZE \in BlocksOf(words')
    /\ StatusOf(words', last'.ret - META_BLOCK_SIZE) = STATUS_ALLOC
    /\ SizeOf(words', last'.ret - META_BLOCK_SIZE) >= a
    /\ last'.copied = <<SizeOf(words, b)>>
    /\ b \in BlocksOf(words')
    /\ StatusOf(words', b) = STATUS_FREE
    /\ SizeOf(words', b) = L[i][2]
    /\ Disjoint(last'.ret - META_BLOCK_SIZE,
                last'.ret + SizeOf(words', last'.ret - META_BLOCK_SIZE),
                b, b + META_BLOCK_SIZE + SizeOf(words', b))

\* C27: when forward coalescing leaves the block smaller than a, os_realloc
\* gets a different heap block of size >= a from get_free_heap_block, copies
\* exactly the payload size the source block had before forward coalescing,
\* marks the source block Free with the size it reached by absorbing its
\* neighbours, and returns the new payload; the destination block shares no
\* byte with the source block.
C27_MoveAfterCoalesce ==
  [][GrowsInner(Cur, last', last'.ptr - META_BLOCK_SIZE, round_up(last'.size))
     => MovedToHeap(ForwardAbsorb(ListOf(words),
                                  IndexOf(words, last'.ptr - META_BLOCK_SIZE),
                                  IndexOf(words, last'.ptr - META_BLOCK_SIZE) + 1,
                                  round_up(last'.size)),
                    IndexOf(words, last'.ptr - META_BLOCK_SIZE),
                    last'.ptr - META_BLOCK_SIZE,
                    round_up(last'.size))]_vars

\* get_free_heap_block of the current source with the coalesce pass of the
\* earlier version in the place of its own.
get_free_heap_block_barrier(s, size, env) ==
  PlaceCoalesced(coalesce_attempt_barrier(prealloc_heap_attempt(s, env).st), size, env)

\* Both answers of get_free_heap_block give the same block and leave the same
\* list and the same program break.
SamePlacement(g1, g2) ==
  /\ g1.ret = g2.ret
  /\ g1.st.fault = g2.st.fault
  /\ ListOf(g1.st.words) = ListOf(g2.st.words)
  /\ g1.st.brk = g2.st.brk

\* C28: the coalesce pass that skips Mapped blocks without resetting the left
\* anchor and the pass that treats a Mapped block as a barrier that resets it
\* are equivalent: in every reachable state they leave the same list, and the
\* heap placement that follows returns the same block and leaves the same
\* list and the same program break.
C28_CoalesceVariantsAgree ==
  (head_init_done /\ heap_prealloc_done /\ ~fault) =>
    /\ ListOf(coalesce_attempt_barrier(Cur).words) = ListOf(coalesce_attempt(Cur).words)
    /\ \A a \in {8, 24} :
         SamePlacement(get_free_heap_block_barrier(Cur, a, EnvOk),
                       get_free_heap_block(Cur, a, EnvOk))

\* The call just made released the mapping of block b.
Unmapped(b) ==
  /\ \A m \in maps' : m.base # b
  /\ \E k \in 1..Len(last'.unmapped) : last'.unmapped[k].base = b

\* Block b of the list has made a step of its lifecycle, or none, in the call
\* just made.
LifecycleStep(b) ==
  IF StatusOf(words, b) = STATUS_MAPPED
  THEN IF b \in BlocksOf(words') THEN StatusOf(words', b) = STATUS_MAPPED
       ELSE Unmapped(b)
  ELSE /\ StatusOf(words, b) \in {STATUS_FREE, STATUS_ALLOC}
       /\ IF b \in BlocksOf(words')
          THEN StatusOf(words', b) \in {STATUS_FREE, STATUS_ALLOC}
          ELSE StatusOf(words, b) = STATUS_FREE /\ last'.merged > 0

\* C29: over any sequence of operations a heap block only moves between Free
\* and Allocated, or leaves the list by being absorbed while Free, and never
\* becomes Mapped; a Mapped block never becomes Free or Allocated and leaves
\* the list only by being unmapped.
C29_Lifecycle ==
  [][~fault' => \A b \in BlocksOf(words) : LifecycleStep(b)]_vars

\* The last block on the heap of state s ends at the program break.
EndsAtBreak(s, last_on_heap) ==
  (last_on_heap \notin {NULL, CRASH}) =>
    s.brk = last_on_heap + META_BLOCK_SIZE + SizeOf(s.words, last_on_heap)

\* C30: whenever a heap block exists, the program break is addr + META_BLOCK_SIZE
\* + size of the last heap block in list order (trailing Mapped blocks
\* skipped), so that the bytes a last-block expansion gains from sbrk are that
\* block's own.
C30_LastBlockEndsAtBreak ==
  (head_init_done /\ ~fault) => EndsAtBreak(Cur, get_last_on_heap(Cur))

\* The call recorded in l returned the payload of a block of h that holds
\* the l.size bytes asked for.
HoldsRequest(h, l) ==
  /\ l.ret - META_BLOCK_SIZE \in BlocksOf(h)
  /\ SizeOf(h, l.ret - META_BLOCK_SIZE) >= l.size

\* C31: with w-bit unsigned arithmetic, for every request n in 1..2^w-1 a
\* non-null result of os_malloc(n), and for every live p a non-null result of
\* os_realloc(p, n), is the payload of a block whose size is >= n; requests
\* within 7 of the word maximum, whose aligned size wraps to 0, get no block
\* of size 0.
C31_PayloadHoldsRequest ==
  [][(/\ \/ last'.op = "malloc"
         \/ last'.op = "realloc" /\ last'.ptr \in live
      /\ last'.size >= 1
      /\ last'.ret # NULL
      /\ ~fault')
     => HoldsRequest(words', last')]_vars

\* The step is the first call of the program, and it is os_free(p) or
\* os_realloc(p, s) with p not null and s > 0: head_init has not run yet.
FirstCallWithPointer ==
  /\ nops = 0
  /\ ~head_init_done
  /\ last'.ptr # NULL
  /\ \/ last'.op = "free"
     \/ last'.op = "realloc" /\ last'.size > 0

\* The step leaves the list, the break, the mappings and the payloads alone.
NothingDone ==
  /\ words' = words
  /\ brk' = brk
  /\ maps' = maps
  /\ mem' = mem

\* C32: os_free(p) and os_realloc(p, s) with s > 0 and p not null, issued as
\* the first call of the program, before any call has run head_init, complete
\* without following a null link: os_free does nothing and os_realloc returns
\* NULL.
C32_FirstCallBeforeInit ==
  [][FirstCallWithPointer => (~fault' /\ last'.ret = NULL /\ NothingDone)]_vars

\* Block b, which the client owned before the step, is still the client's
\* after it: in the list, Allocated or Mapped, its mapping in place if it has
\* one, not smaller, and the payload it had before holds the same bytes.
StillUsable(b) ==
  /\ b \in BlocksOf(words')
  /\ LiveIn(words', b)
  /\ \A m \in maps : m.base = b => m \in maps'
  /\ SizeOf(words', b) >= SizeOf(words, b)
  /\ Bytes(mem', Payload(b), SizeOf(words, b)) = Bytes(mem, Payload(b), SizeOf(words, b))

\* C33: whenever os_realloc(p, s) with s > 0 returns NULL because sbrk or
\* mmap failed, the block of p is still in the list with status Allocated or
\* Mapped (not Free, not unmapped), its size is at least its size before the
\* call, and its payload bytes are unchanged, so the caller can keep using p.
C33_FailedReallocKeepsBlock ==
  [][(/\ last'.op = "realloc"
      /\ last'.ptr # NULL
      /\ last'.size > 0
      /\ last'.path \in FailPaths
      /\ ~fault')
     => /\ last'.ret = NULL
        /\ StillUsable(Wrap(last'.ptr - META_BLOCK_SIZE))]_vars

\* Following next from the sentinel comes back to the sentinel, and passes no
\* block twice.
ClosedRing(h) ==
  /\ Wrap(HeadAddr + OffNext) \in DOMAIN h
  /\ Cardinality(BlocksOf(h)) = Len(Nodes(h))
  /\ IF Nodes(h) = <<>> THEN NextOf(h, HeadAddr) = HeadAddr
     ELSE NextOf(h, Nodes(h)[Len(Nodes(h))]) = HeadAddr

\* The two links of node x agree with the links of its neighbours.
LinkedBothWays(h, x) ==
  /\ PrevOf(h, NextOf(h, x)) = x
  /\ NextOf(h, PrevOf(h, x)) = x

\* Block x of the list is not one that was unlinked: its descriptor is in
\* memory the process has, a Mapped block has its mapping, and no other heap
\* block of the list starts inside the bytes of a heap block (as a block that
\* was coalesced into it would).
NotUnlinked(s, x) ==
  /\ HdrAcc(s, x)
  /\ StatusOf(s.words, x) = STATUS_MAPPED => \E m \in s.maps : m.base = x
  /\ StatusOf(s.words, x) # STATUS_MAPPED =>
       \A y \in BlocksOf(s.words) :
         StatusOf(s.words, y) # STATUS_MAPPED =>
           ~(y > x /\ y < x + META_BLOCK_SIZE + SizeOf(s.words, x))

\* C34: once head_init has run, after every operation the list is a
\* well-formed circular doubly-linked list: x.next.prev = x and x.prev.next = x
\* for the sentinel and every block reachable from it, following next from
\* the sentinel returns to the sentinel after visiting each linked block
\* once, and no unlinked (coalesced or unmapped) block is reachable.
C34_WellFormedList ==
  (head_init_done /\ ~fault) =>
    /\ ClosedRing(words)
    /\ \A x \in BlocksOf(words) \cup {HeadAddr} : LinkedBothWays(words, x)
    /\ \A x \in BlocksOf(words) : NotUnlinked(Cur, x)
====
